---- MODULE Spec2Model ----
(***************************************************************************)
(* FRA Atlas server: the entity store (relational and in-memory backends),  *)
(* the HTTP handlers of server/routes.ts and the upload/intake flow,        *)
(* modelled as a state machine of requests in flight.                       *)
(*                                                                          *)
(* JavaScript values are modelled as strings: NULL is null, a key that is   *)
(* absent from a record is undefined.  Objects are functions from key       *)
(* names to values, so that the spread {...a, ...b} is Spread(a, b).        *)
(* Timestamps are readings of `clock`, which never runs backwards.          *)
(***************************************************************************)
EXTENDS Integers, Sequences, FiniteSets, TLC

VARIABLES
    usingDb,      \* storage.ts:242  TRUE: DatabaseStorage, FALSE: MemoryStorage
    claimsData,   \* the stored claims, newest insert first
    filesData,    \* the stored file records, oldest first
    clock,        \* the wall clock read by new Date() / defaultNow()
    reqs,         \* the requests in flight, one per slot: handler position and locals
    last,         \* the response sent by the step that led to this state, if it sent one
    claimsCreated, \* how many claim identifiers have been generated
    filesCreated,  \* how many file identifiers have been generated
    geometryLog,  \* per claim id: the geometry last saved by POST /api/claims/:id/boundary
                  \* (saved) and the geometry last written by any request (written)
    fileUpload,   \* client: the state of the useFileUpload hook, its calls in flight and
                  \* its live intervals
    queries       \* client: the query cache of the pages, by query key

----------------------------------------------------------------------------
(* Bounds of the model *)

MaxClaims == 2   \* claims created over a run
MaxFiles == 1    \* file records created over a run
MaxClock == 1    \* clock readings 0..MaxClock
MaxGeoClaims == 1    \* claims created over a run of the map scenario (SpecGeo)
MaxFrameClaims == 1  \* claims created over a run of the update scenario (SpecFrame)
MaxMapClaims == 51   \* claims created over a run of the large-map scenario (SpecMapMany)
MaxUploadCalls == 2  \* calls of the hook's uploadFile over a run

Slots == {1, 2}  \* requests that can be in flight at once

\* what each slot is serving
RequestKinds == [r \in Slots |-> reqs[r].kind]

\* The state.  What is being served and the kind and status of the response come
\* before the records that hold them, so that two states are told apart before
\* request or response bodies of different routes are compared.
vars == <<usingDb, claimsData, filesData, clock, claimsCreated, filesCreated, geometryLog,
          fileUpload, RequestKinds, last.kind, last.status, reqs, last, queries.step, queries>>

----------------------------------------------------------------------------
(* Values *)

NULL == "null"
UNDEFINED == "undefined"
ZERO == "0"        \* the JSON number 0
EMPTY == ""        \* the empty string
NONE == "none"     \* model value: nothing recorded

\* JavaScript truthiness, as tested by `!x` and `x || null` in routes.ts
Truthy(v) == v \notin {UNDEFINED, NULL, ZERO, EMPTY, "false"}

\* obj[k], undefined when the key is absent
Get(obj, k) == IF k \in DOMAIN obj THEN obj[k] ELSE UNDEFINED

\* { ...a, ...b }
Spread(a, b) == [k \in (DOMAIN a) \cup (DOMAIN b) |-> IF k \in DOMAIN b THEN b[k] ELSE a[k]]

\* the object restricted to a set of keys (zod's default: unknown keys are stripped)
Pick(obj, keys) == [k \in (DOMAIN obj) \cap keys |-> obj[k]]

\* crypto.randomUUID() / gen_random_uuid(): the n-th identifier generated
UuidPool == <<"uuid-1", "uuid-2", "uuid-3", "uuid-4", "uuid-5">>
FileUuidPool == <<"file-1", "file-2", "file-3", "file-4">>
UnknownId == "uuid-none"   \* an id no generator ever returns

ClaimStatuses == {"pending", "approved", "rejected", "review_required"}
FileStatuses == {"uploaded", "processing", "processed", "failed"}

\* columns of the claims table
ClaimColumns ==
    {"id", "claimId", "claimantName", "village", "district", "state", "area",
     "surveyNumber", "status", "ocrConfidence", "boundaryGeometry", "rawOcrText",
     "userId", "createdAt", "updatedAt"}
NotNullColumns == {"claimId", "claimantName", "village", "area"}
\* insertClaimSchema: the table's columns without id, createdAt, updatedAt
InsertClaimKeys == ClaimColumns \ {"id", "createdAt", "updatedAt"}

\* decimal(10,2) areas, as the strings the API carries
Areas == {"1.50", "2.25", "2.5", "-1.00"}

\* the text a decimal(10,2) column returns for a value written to it
Numeric2(a) == IF a = "2.5" THEN "2.50" ELSE a

\* the values of an insert or update as the columns of the claims table hold them
DbValues(values) ==
    [k \in DOMAIN values |->
        IF k = "area" /\ values[k] # NULL THEN Numeric2(values[k]) ELSE values[k]]

BADTYPE == "#wrong-json-type"   \* a value of a JSON type the column's schema rejects

----------------------------------------------------------------------------
(* shared/schema.ts: insertClaimSchema *)

\* insertClaimSchema.parse(body): the required columns are present and non-null,
\* status (when given) is one of the enum's values, no value has the wrong type;
\* keys outside the schema (id, createdAt, updatedAt, ...) are stripped.
InsertClaimValid(body) ==
    /\ \A k \in NotNullColumns : Get(body, k) \notin {UNDEFINED, NULL, BADTYPE}
    /\ Get(body, "status") \in ClaimStatuses \cup {UNDEFINED}
    /\ \A k \in (DOMAIN body) \cap InsertClaimKeys : body[k] # BADTYPE

\* faulty variant: a partial schema that takes any status
PartialAnyStatus(body) ==
    /\ \A k \in NotNullColumns \cap DOMAIN body : body[k] \notin {NULL, BADTYPE}
    /\ \A k \in (DOMAIN body) \cap InsertClaimKeys : body[k] # BADTYPE

\* insertClaimSchema.partial().parse(body): no key is required
PartialClaimValid(body) ==
    /\ \A k \in NotNullColumns \cap DOMAIN body : body[k] \notin {NULL, BADTYPE}
    /\ Get(body, "status") \in ClaimStatuses \cup {UNDEFINED}
    /\ \A k \in (DOMAIN body) \cap InsertClaimKeys : body[k] # BADTYPE

\* faulty variant: a parse that keeps the keys the schema does not have
Unstripped(body) == body

ParsedClaim(body) == Pick(body, InsertClaimKeys)

----------------------------------------------------------------------------
(* server/storage.ts: claims *)

CodeExists(claims, code) == \E i \in 1..Len(claims) : Get(claims[i], "claimId") = code
IdExists(claims, id) == \E i \in 1..Len(claims) : claims[i].id = id
IndexOfId(claims, id) == CHOOSE i \in 1..Len(claims) : claims[i].id = id

\* the identifier the next createClaim generates
NextClaimUuid == "uuid-" \o ToString(claimsCreated + 1)

\* A store result that may be undefined is a sequence: <<x>>, or <<>> for undefined.

\* faulty variant: a lookup that never finds the claim
getClaimByClaimIdMiss(code) == <<>>

\* getClaimByClaimId: the first claim with that code, undefined when there is none
getClaimByClaimId(code) ==
    IF CodeExists(claimsData, code)
    THEN <<claimsData[CHOOSE i \in 1..Len(claimsData) :
                          /\ Get(claimsData[i], "claimId") = code
                          /\ \A j \in 1..(i - 1) : Get(claimsData[j], "claimId") # code]>>
    ELSE <<>>

\* the row the database builds from the inserted values: defaults for the columns
\* left undefined (id, createdAt, status), null for the other columns
DbRow(values, id) ==
    [k \in ClaimColumns |->
        CASE k = "id" -> id
          [] k = "createdAt" -> clock
          [] k = "status" /\ k \notin DOMAIN values -> "pending"
          [] OTHER -> IF k \notin DOMAIN values THEN NULL ELSE values[k]]

\* the constraints of the claims table that an insert or update of `row` must meet,
\* `others` being the rows it has to stay unique against
DbConstraintsOk(row, others) ==
    /\ \A k \in NotNullColumns : row[k] # NULL
    /\ row.status \in ClaimStatuses
    /\ ~CodeExists(others, row.claimId)

\* DatabaseStorage.createClaim: [err, claims, value]
DbCreateClaim(insertClaim, id) ==
    LET row == DbRow(DbValues(Spread(insertClaim, [updatedAt |-> clock])), id)
    IN IF DbConstraintsOk(row, claimsData)
       THEN [err |-> FALSE, claims |-> <<row>> \o claimsData, value |-> <<row>>]
       ELSE [err |-> TRUE, claims |-> claimsData, value |-> <<>>]

\* MemoryStorage.createClaim
MemCreateClaim(insertClaim, id) ==
    LET created == Spread([id |-> id, createdAt |-> clock, updatedAt |-> clock,
                           status |-> "pending"], insertClaim)
    IN [err |-> FALSE, claims |-> <<created>> \o claimsData, value |-> <<created>>]

createClaim(insertClaim, id) ==
    IF usingDb THEN DbCreateClaim(insertClaim, id) ELSE MemCreateClaim(insertClaim, id)

\* DatabaseStorage.updateClaim: no matching row updates nothing and returns undefined
DbUpdateClaim(id, updates) ==
    IF ~IdExists(claimsData, id)
    THEN [err |-> FALSE, claims |-> claimsData, value |-> <<>>]
    ELSE LET i == IndexOfId(claimsData, id)
             row == Spread(claimsData[i], DbValues(Spread(updates, [updatedAt |-> clock])))
             others == SelectSeq(claimsData, LAMBDA c : c.id # id)
         IN IF DbConstraintsOk(row, others)
            THEN [err |-> FALSE, claims |-> [claimsData EXCEPT ![i] = row], value |-> <<row>>]
            ELSE [err |-> TRUE, claims |-> claimsData, value |-> <<>>]

\* MemoryStorage.updateClaim: throws when the id is unknown
MemUpdateClaim(id, updates) ==
    IF ~IdExists(claimsData, id)
    THEN [err |-> TRUE, claims |-> claimsData, value |-> <<>>]
    ELSE LET i == IndexOfId(claimsData, id)
             updated == Spread(Spread(claimsData[i], updates), [updatedAt |-> clock])
         IN [err |-> FALSE, claims |-> [claimsData EXCEPT ![i] = updated], value |-> <<updated>>]

\* faulty variant: an update that refreshes updatedAt and stores none of the given fields
UpdateTouchingOnly(id, updates) ==
    IF ~IdExists(claimsData, id)
    THEN [err |-> ~usingDb, claims |-> claimsData, value |-> <<>>]
    ELSE LET i == IndexOfId(claimsData, id)
             touched == Spread(claimsData[i], [updatedAt |-> clock])
         IN [err |-> FALSE, claims |-> [claimsData EXCEPT ![i] = touched], value |-> <<touched>>]

\* faulty variant: an update that replaces the stored claim by the given fields
UpdateReplacing(id, updates) ==
    IF ~IdExists(claimsData, id)
    THEN [err |-> ~usingDb, claims |-> claimsData, value |-> <<>>]
    ELSE LET i == IndexOfId(claimsData, id)
             replaced == Spread(Pick(claimsData[i], {"id", "createdAt"}),
                                Spread(updates, [updatedAt |-> clock]))
         IN [err |-> FALSE, claims |-> [claimsData EXCEPT ![i] = replaced], value |-> <<replaced>>]

updateClaim(id, updates) ==
    IF usingDb THEN DbUpdateClaim(id, updates) ELSE MemUpdateClaim(id, updates)

\* DatabaseStorage.deleteClaim: [deleted, claims, files]
DbDeleteClaim(id) ==
    LET rest == SelectSeq(claimsData, LAMBDA c : c.id # id)
    IN [deleted |-> Len(claimsData) - Len(rest) > 0, claims |-> rest, files |-> filesData]

\* faulty variant: a filter that keeps the file records of the deleted claim only
MemDeleteKeepingLinked(id) ==
    LET rest == SelectSeq(claimsData, LAMBDA c : c.id # id)
    IN [deleted |-> Len(rest) < Len(claimsData), claims |-> rest,
        files |-> SelectSeq(filesData, LAMBDA f : f.claimId = id)]

\* MemoryStorage.deleteClaim: also drops the file records whose claimId is the id
MemDeleteClaim(id) ==
    LET rest == SelectSeq(claimsData, LAMBDA c : c.id # id)
    IN [deleted |-> Len(rest) < Len(claimsData), claims |-> rest,
        files |-> SelectSeq(filesData, LAMBDA f : f.claimId # id)]

\* faulty variant: a delete that reports a removed row whatever it matched
DeleteReportingSuccess(id) ==
    [deleted |-> TRUE, claims |-> SelectSeq(claimsData, LAMBDA c : c.id # id), files |-> filesData]

deleteClaim(id) == IF usingDb THEN DbDeleteClaim(id) ELSE MemDeleteClaim(id)

----------------------------------------------------------------------------
(* Requests in flight.  A handler is suspended at each await of a store call,  *)
(* and the handlers of other requests may run before it resumes.  A store call *)
(* itself takes effect in one step: a statement of the relational backend, or  *)
(* the synchronous body of a method of the in-memory backend.                  *)

Idle == [kind |-> "idle", pc |-> "idle"]

\* The response a step sends is taken by the client (Receive) before the server's
\* next step, except that the client may answer it at once with a request whose
\* response records it (Preceding).
Settled == last.kind = "none"
DispatchAfter(r) == reqs[r].kind = "idle"
Dispatch(r) == Settled /\ DispatchAfter(r)
\* a handler that answers within one store call needs a free slot only to be dispatched
Dispatchable == \E r \in Slots : Dispatch(r)
At(r, kind, pc) == Settled /\ reqs[r].kind = kind /\ reqs[r].pc = pc
\* no request is in flight
Exclusive == \A r \in Slots : reqs[r].kind = "idle"

\* res.status(status).json(value): the response the client sees; `by` is who sent
\* it, the route's handler unless a step says otherwise
Response(kind, id, body, status, msg, value) ==
    [kind |-> kind, id |-> id, body |-> body, status |-> status, msg |-> msg,
     value |-> value, after |-> [kind |-> "none"], before |-> <<>>, by |-> "handler"]

\* the step sends no response
NoResponse == Response("none", NONE, UNDEFINED, 0, "", <<>>)

\* the response sent just before a request is dispatched: with it in the request's
\* own response (field after), two consecutive requests can be told from their answers
Preceding(kind) ==
    IF last.kind = kind
    THEN [kind |-> last.kind, id |-> last.id, body |-> last.body, status |-> last.status,
          before |-> last.before]
    ELSE [kind |-> "none"]

\* the claim stored under the id, undefined when there is none
StoredClaim(id) ==
    IF IdExists(claimsData, id) THEN <<claimsData[IndexOfId(claimsData, id)]>> ELSE <<>>

Written(id, geometry) == [geometryLog EXCEPT ![id].written = geometry]

\* POST /api/claims, while fewer than max claims have been created
PostClaimWithin(body, max) ==
    /\ Dispatchable
    /\ claimsCreated < max
    /\ LET res == createClaim(ParsedClaim(body), NextClaimUuid)
       IN IF InsertClaimValid(body) /\ ~res.err
          THEN /\ claimsData' = res.claims
               /\ claimsCreated' = claimsCreated + 1
               /\ geometryLog' = Written(res.value[1].id, Get(body, "boundaryGeometry"))
               /\ last' = Response("postClaim", NONE, body, 201, "", res.value)
          ELSE /\ last' = Response("postClaim", NONE, body, 400, "Failed to create claim", <<>>)
               /\ UNCHANGED <<claimsData, claimsCreated, geometryLog>>
    /\ UNCHANGED <<fileUpload, queries, usingDb, filesData, clock, reqs, filesCreated>>

PostClaim(body) == PostClaimWithin(body, MaxClaims)

\* PATCH /api/claims/:id
PatchClaim(id, body) ==
    /\ Dispatchable
    /\ LET res == updateClaim(id, ParsedClaim(body))
       IN IF PartialClaimValid(body) /\ ~res.err
          THEN /\ claimsData' = res.claims
               /\ geometryLog' = IF IdExists(claimsData, id) /\ "boundaryGeometry" \in DOMAIN body
                                 THEN Written(id, body.boundaryGeometry) ELSE geometryLog
               /\ last' = [Response("patchClaim", id, body, 200, "", res.value)
                               EXCEPT !.before = StoredClaim(id)]
          ELSE /\ last' = Response("patchClaim", id, body, 400, "Failed to update claim", <<>>)
               /\ UNCHANGED <<claimsData, geometryLog>>
    /\ UNCHANGED <<fileUpload, queries, usingDb, filesData, clock, reqs, claimsCreated, filesCreated>>

\* POST /api/claims/:id/boundary
SaveBoundary(id, geometry) ==
    /\ Dispatchable
    /\ LET res == updateClaim(id, [boundaryGeometry |-> geometry])
           body == [geometry |-> geometry]
       IN IF ~Truthy(geometry)
          THEN /\ last' = Response("saveBoundary", id, body, 400, "Geometry is required", <<>>)
               /\ UNCHANGED <<claimsData, geometryLog>>
          ELSE IF res.err
          THEN /\ last' = Response("saveBoundary", id, body, 400, "Failed to save boundary", <<>>)
               /\ UNCHANGED <<claimsData, geometryLog>>
          ELSE /\ claimsData' = res.claims
               /\ geometryLog' = IF IdExists(claimsData, id)
                                 THEN [geometryLog EXCEPT ![id] = [saved |-> geometry, written |-> geometry]]
                                 ELSE geometryLog
               /\ last' = [Response("saveBoundary", id, body, 200, "", res.value)
                               EXCEPT !.before = StoredClaim(id)]
    /\ UNCHANGED <<fileUpload, queries, usingDb, filesData, clock, reqs, claimsCreated, filesCreated>>

\* DELETE /api/claims/:id
DeleteClaim(id) ==
    /\ \E r \in Slots : DispatchAfter(r)
    /\ LET res == deleteClaim(id)
       IN /\ claimsData' = res.claims
          /\ filesData' = res.files
          /\ last' = [(IF res.deleted
                       THEN Response("deleteClaim", id, UNDEFINED, 204, "", <<>>)
                       ELSE Response("deleteClaim", id, UNDEFINED, 404, "Claim not found", <<>>))
                          EXCEPT !.after = Preceding("deleteClaim")]
    /\ UNCHANGED <<fileUpload, queries, usingDb, clock, reqs, claimsCreated, filesCreated, geometryLog>>

----------------------------------------------------------------------------
(* server/storage.ts: files *)

FileExists(id) == \E i \in 1..Len(filesData) : filesData[i].id = id
NextFileUuid == FileUuidPool[filesCreated + 1]

\* createFile: both backends append the record and return it
createFile(insertFile, id) == Spread([id |-> id], insertFile)

\* the file records after setting the status of the record with that id
WithFileStatus(id, status) ==
    [i \in 1..Len(filesData) |->
        IF filesData[i].id = id THEN [filesData[i] EXCEPT !.status = status] ELSE filesData[i]]

\* DatabaseStorage.updateFileStatus: no matching row updates nothing, returns undefined
DbUpdateFileStatus(id, status) == [err |-> FALSE, files |-> WithFileStatus(id, status)]

\* MemoryStorage.updateFileStatus: throws when the id is unknown
MemUpdateFileStatus(id, status) ==
    IF FileExists(id) THEN [err |-> FALSE, files |-> WithFileStatus(id, status)]
    ELSE [err |-> TRUE, files |-> filesData]

\* faulty variant: a status update that writes nothing
FileStatusUnwritten(id, status) == [err |-> FALSE, files |-> filesData]

updateFileStatus(id, status) ==
    IF usingDb THEN DbUpdateFileStatus(id, status) ELSE MemUpdateFileStatus(id, status)

----------------------------------------------------------------------------
(* POST /api/ocr/save *)

OcrRequired == {"claimantName", "village", "claimId", "area"}

\* x || null
OrNull(v) == IF Truthy(v) THEN v ELSE NULL

\* the claim the handler builds from the reviewed extraction
OcrClaimData(ocrData) ==
    [claimId |-> ocrData.claimId,
     claimantName |-> ocrData.claimantName,
     village |-> ocrData.village,
     district |-> OrNull(Get(ocrData, "district")),
     state |-> OrNull(Get(ocrData, "state")),
     area |-> ocrData.area,
     surveyNumber |-> OrNull(Get(ocrData, "surveyNumber")),
     status |-> "pending",
     ocrConfidence |-> OrNull(Get(ocrData, "confidence")),
     boundaryGeometry |-> NULL,
     rawOcrText |-> OrNull(Get(ocrData, "rawText")),
     userId |-> NULL]

\* claim identifiers reserved by saves that are about to insert
Inserting == Cardinality({q \in Slots : reqs[q].kind = "ocrSave" /\ reqs[q].pc = "insert"})

\* the required-field validation and the existence check (getClaimByClaimId)
OcrSaveCheck(r, ocrData) ==
    /\ DispatchAfter(r)
    /\ claimsCreated + Inserting < MaxClaims
    /\ IF \E k \in OcrRequired : ~Truthy(Get(ocrData, k))
       THEN /\ last' = [Response("ocrSave", NONE, ocrData, 400, "Missing required claim data", <<>>)
                            EXCEPT !.after = Preceding("ocrSave")]
            /\ reqs' = reqs
       ELSE IF getClaimByClaimId(ocrData.claimId) # <<>>
       THEN /\ last' = [Response("ocrSave", NONE, ocrData, 400, "Claim ID already exists", <<>>)
                            EXCEPT !.after = Preceding("ocrSave")]
            /\ reqs' = reqs
       ELSE /\ reqs' = [reqs EXCEPT ![r] = [kind |-> "ocrSave", pc |-> "insert", body |-> ocrData,
                                            after |-> Preceding("ocrSave")]]
            /\ last' = NoResponse
    /\ UNCHANGED <<fileUpload, queries, usingDb, claimsData, filesData, clock, claimsCreated, filesCreated, geometryLog>>

\* storage.createClaim(claimData); without a fileId the handler answers 201
OcrSaveInsert(r) ==
    /\ At(r, "ocrSave", "insert")
    /\ LET ocrData == reqs[r].body
           res == createClaim(OcrClaimData(ocrData), NextClaimUuid)
       IN IF res.err
          THEN /\ last' = [Response("ocrSave", NONE, ocrData, 400, "Failed to save claim data", <<>>)
                               EXCEPT !.after = reqs[r].after]
               /\ reqs' = [reqs EXCEPT ![r] = Idle]
               /\ UNCHANGED <<claimsData, claimsCreated, geometryLog>>
          ELSE /\ claimsData' = res.claims
               /\ claimsCreated' = claimsCreated + 1
               /\ geometryLog' = Written(res.value[1].id, NULL)
               /\ IF Truthy(Get(ocrData, "fileId"))
                  THEN /\ reqs' = [reqs EXCEPT ![r] = [kind |-> "ocrSave", pc |-> "file",
                                                       body |-> ocrData, claim |-> res.value,
                                                       after |-> reqs[r].after]]
                       /\ last' = NoResponse
                  ELSE /\ reqs' = [reqs EXCEPT ![r] = Idle]
                       /\ last' = [Response("ocrSave", NONE, ocrData, 201, "", res.value)
                                       EXCEPT !.after = reqs[r].after]
    /\ UNCHANGED <<fileUpload, queries, usingDb, filesData, clock, filesCreated>>

\* storage.updateFileStatus(ocrData.fileId, "processed"), then 201
OcrSaveFile(r) ==
    /\ At(r, "ocrSave", "file")
    /\ LET ocrData == reqs[r].body
           res == updateFileStatus(ocrData.fileId, "processed")
       IN /\ filesData' = res.files
          /\ last' = [(IF res.err
                       THEN Response("ocrSave", NONE, ocrData, 400, "Failed to save claim data", <<>>)
                       ELSE Response("ocrSave", NONE, ocrData, 201, "", reqs[r].claim))
                          EXCEPT !.after = reqs[r].after]
    /\ reqs' = [reqs EXCEPT ![r] = Idle]
    /\ UNCHANGED <<fileUpload, queries, usingDb, claimsData, clock, claimsCreated, filesCreated, geometryLog>>

----------------------------------------------------------------------------
(* GET /api/dashboard/stats *)

\* Number(area), in hundredths of a hectare
AreaCents(a) ==
    CASE a = "1.50" -> 150 [] a = "2.25" -> 225 [] a \in {"2.5", "2.50"} -> 250
      [] a = "-1.00" -> 0 - 100 [] OTHER -> 0

RECURSIVE SumArea(_)
SumArea(claims) ==
    IF claims = <<>> THEN 0 ELSE AreaCents(Get(Head(claims), "area")) + SumArea(Tail(claims))

CountStatus(status) == Len(SelectSeq(claimsData, LAMBDA c : c.status = status))

\* MemoryStorage.getDashboardStats: one synchronous pass over claimsData
MemDashboardStats ==
    [totalClaims |-> Len(claimsData), processed |-> CountStatus("approved"),
     totalArea |-> SumArea(claimsData), pending |-> CountStatus("pending")]

\* the relational backend's four queries, in order, each on the table as it is when
\* the query runs
StatsQueries == <<"totalClaims", "processed", "totalArea", "pending">>
DbStatsQuery(name) ==
    CASE name = "totalClaims" -> Len(claimsData)
      [] name = "processed" -> CountStatus("approved")
      [] name = "totalArea" -> SumArea(claimsData)
      [] name = "pending" -> CountStatus("pending")

\* the handler on the in-memory backend, and the first query on the relational one
DashboardStats(r) ==
    /\ Dispatch(r)
    /\ IF usingDb
       THEN /\ reqs' = [reqs EXCEPT ![r] = [kind |-> "stats", pc |-> "query",
                            got |-> [totalClaims |-> DbStatsQuery("totalClaims")]]]
            /\ last' = NoResponse
       ELSE /\ last' = Response("stats", NONE, UNDEFINED, 200, "", MemDashboardStats)
            /\ reqs' = reqs
    /\ UNCHANGED <<fileUpload, queries, usingDb, claimsData, filesData, clock, claimsCreated, filesCreated, geometryLog>>

\* the next of the relational backend's queries; after the last one the handler answers
DashboardStatsQuery(r) ==
    /\ At(r, "stats", "query")
    /\ LET name == StatsQueries[Cardinality(DOMAIN reqs[r].got) + 1]
           got == Spread(reqs[r].got, [k \in {name} |-> DbStatsQuery(name)])
       IN IF name = "pending"
          THEN /\ last' = Response("stats", NONE, UNDEFINED, 200, "", got)
               /\ reqs' = [reqs EXCEPT ![r] = Idle]
          ELSE /\ reqs' = [reqs EXCEPT ![r] = [kind |-> "stats", pc |-> "query", got |-> got]]
               /\ last' = NoResponse
    /\ UNCHANGED <<fileUpload, queries, usingDb, claimsData, filesData, clock, claimsCreated, filesCreated, geometryLog>>

----------------------------------------------------------------------------
(* GET /api/claims/:id *)

\* the uploaded_files rows whose claimId is the id
FilesOfClaim(id) == SelectSeq(filesData, LAMBDA f : f.claimId = id)


\* MemoryStorage.getClaim returns the stored object, whose files list is the empty one
\* createClaim gave it; DatabaseStorage.getClaim selects the claim first
GetClaim(r, id) ==
    /\ DispatchAfter(r)
    /\ IF StoredClaim(id) = <<>>
       THEN /\ last' = [Response("getClaim", id, UNDEFINED, 404, "Claim not found", <<>>)
                            EXCEPT !.after = Preceding("patchClaim")]
            /\ reqs' = reqs
       ELSE IF usingDb
       THEN /\ reqs' = [reqs EXCEPT ![r] = [kind |-> "getClaim", pc |-> "files", id |-> id,
                                            claim |-> StoredClaim(id)[1], after |-> Preceding("patchClaim")]]
            /\ last' = NoResponse
       ELSE /\ last' = [Response("getClaim", id, UNDEFINED, 200, "",
                                 <<[claim |-> StoredClaim(id)[1], files |-> <<>>]>>)
                            EXCEPT !.after = Preceding("patchClaim")]
            /\ reqs' = reqs
    /\ UNCHANGED <<fileUpload, queries, usingDb, claimsData, filesData, clock, claimsCreated, filesCreated, geometryLog>>

\* DatabaseStorage.getClaim: the second query, for the claim's files
GetClaimFiles(r) ==
    /\ At(r, "getClaim", "files")
    /\ last' = [Response("getClaim", reqs[r].id, UNDEFINED, 200, "",
                         <<[claim |-> reqs[r].claim, files |-> FilesOfClaim(reqs[r].id)]>>)
                    EXCEPT !.after = reqs[r].after]
    /\ reqs' = [reqs EXCEPT ![r] = Idle]
    /\ UNCHANGED <<fileUpload, queries, usingDb, claimsData, filesData, clock, claimsCreated, filesCreated, geometryLog>>

----------------------------------------------------------------------------
(* getClaims and GET /api/map/claims *)

DefaultLimit == 50

Take(s, n) == SubSeq(s, 1, IF n < Len(s) THEN n ELSE Len(s))

\* Array.prototype.slice(0, n): a negative n counts from the end
Slice(s, n) == IF n >= 0 THEN Take(s, n) ELSE Take(s, IF Len(s) + n > 0 THEN Len(s) + n ELSE 0)

\* MemoryStorage.getClaims: claimsData.slice(0, limit)
MemGetClaims(limit) == Slice(claimsData, limit)

\* the orders in which ORDER BY created_at DESC can return the rows: rows created at
\* the same reading of the clock come in any order
DescByCreatedAt ==
    {order \in [1..Len(claimsData) -> 1..Len(claimsData)] :
        /\ \A i, j \in 1..Len(claimsData) : i # j => order[i] # order[j]
        /\ \A i, j \in 1..Len(claimsData) :
               i < j => claimsData[order[i]].createdAt >= claimsData[order[j]].createdAt}

\* DatabaseStorage.getClaims: the possible results of the first query
DbGetClaims(limit) ==
    {Take([i \in 1..Len(claimsData) |-> claimsData[order[i]]], limit) : order \in DescByCreatedAt}

getClaims(limit) == IF usingDb THEN DbGetClaims(limit) ELSE {MemGetClaims(limit)}

\* DatabaseStorage.getClaims: PostgreSQL refuses a negative LIMIT, the query throws
GetClaimsFails(limit) == usingDb /\ limit < 0

\* parseInt of the query strings the model sends
ParseInt(q) ==
    CASE q = "0" -> 0 [] q = "1" -> 1 [] q = "2" -> 2 [] q = "-1" -> 0 - 1
      [] q = "10" -> 10 [] q = "50" -> 50

\* req.query.limit ? parseInt(req.query.limit) : undefined, and getClaims' limit = 50
LimitOf(q) == IF q \notin {UNDEFINED, EMPTY} THEN ParseInt(q) ELSE DefaultLimit

\* GET /api/claims: the handler on the in-memory backend; on the relational one,
\* getClaims' first query
GetClaims(r, q) ==
    /\ Dispatch(r)
    /\ IF GetClaimsFails(LimitOf(q))
       THEN /\ last' = Response("getClaims", NONE, q, 500, "Failed to fetch claims", <<>>)
            /\ reqs' = reqs
       ELSE \E claims \in getClaims(LimitOf(q)) :
               IF usingDb
               THEN /\ reqs' = [reqs EXCEPT ![r] = [kind |-> "getClaims", pc |-> "files",
                                                    query |-> q, claims |-> claims]]
                    /\ last' = NoResponse
               ELSE /\ last' = Response("getClaims", NONE, q, 200, "", <<claims>>)
                    /\ reqs' = reqs
    /\ UNCHANGED <<fileUpload, queries, usingDb, claimsData, filesData, clock, claimsCreated, filesCreated, geometryLog>>

\* DatabaseStorage.getClaims: the queries for the files of each claim, and the answer
GetClaimsFiles(r) ==
    /\ At(r, "getClaims", "files")
    /\ last' = Response("getClaims", NONE, reqs[r].query, 200, "", <<reqs[r].claims>>)
    /\ reqs' = [reqs EXCEPT ![r] = Idle]
    /\ UNCHANGED <<fileUpload, queries, usingDb, claimsData, filesData, clock, claimsCreated, filesCreated, geometryLog>>

\* the Feature the handler builds for a claim
Feature(claim) ==
    [type |-> "Feature",
     properties |-> [id |-> claim.id,
                     claimId |-> Get(claim, "claimId"),
                     claimantName |-> Get(claim, "claimantName"),
                     village |-> Get(claim, "village"),
                     district |-> Get(claim, "district"),
                     state |-> Get(claim, "state"),
                     area |-> Get(claim, "area"),
                     status |-> Get(claim, "status"),
                     ocrConfidence |-> Get(claim, "ocrConfidence")],
     geometry |-> claim.boundaryGeometry]

\* faulty variant: a filter that only drops the claims without a boundaryGeometry key
HasGeometryKey(claim) == "boundaryGeometry" \in DOMAIN claim

\* claims.filter(claim => claim.boundaryGeometry)
HasGeometry(claim) == Truthy(Get(claim, "boundaryGeometry"))

\* the FeatureCollection of the claims that have a geometry
FeatureCollection(claims) ==
    LET withGeometry == SelectSeq(claims, HasGeometry)
    IN [type |-> "FeatureCollection",
        features |-> [i \in 1..Len(withGeometry) |-> Feature(withGeometry[i])]]

\* the handler on the in-memory backend; on the relational one, getClaims' first query
MapClaims(r) ==
    /\ Dispatch(r)
    /\ \E claims \in getClaims(DefaultLimit) :
        IF usingDb
        THEN /\ reqs' = [reqs EXCEPT ![r] = [kind |-> "mapClaims", pc |-> "files",
                                             claims |-> claims]]
             /\ last' = NoResponse
        ELSE /\ last' = Response("mapClaims", NONE, UNDEFINED, 200, "", FeatureCollection(claims))
             /\ reqs' = reqs
    /\ UNCHANGED <<fileUpload, queries, usingDb, claimsData, filesData, clock, claimsCreated, filesCreated, geometryLog>>

\* getClaims' queries for the files of each claim (the projection drops them), and the answer
MapClaimsFiles(r) ==
    /\ At(r, "mapClaims", "files")
    /\ last' = Response("mapClaims", NONE, UNDEFINED, 200, "", FeatureCollection(reqs[r].claims))
    /\ reqs' = [reqs EXCEPT ![r] = Idle]
    /\ UNCHANGED <<fileUpload, queries, usingDb, claimsData, filesData, clock, claimsCreated, filesCreated, geometryLog>>

----------------------------------------------------------------------------
(* POST /api/upload *)

FileSizeLimit == 10 * 1024 * 1024
AllowedTypes == {"application/pdf", "image/jpeg", "image/png", "image/jpg"}

\* faulty variant: multer without limits.fileSize
MulterNoLimit(file) == file.mimetype \in AllowedTypes

\* multer: fileFilter passes the MIME type and the file stays within limits.fileSize;
\* otherwise multer hands an error to Express and the route's handler never runs
MulterAccepts(file) == file.mimetype \in AllowedTypes /\ file.size <= FileSizeLimit

\* the handler up to storage.createFile.  `file` is the multipart file, or <<>> when
\* the request carries none.
Upload(r, upload) ==
    /\ Dispatch(r)
    /\ (upload # <<>> /\ MulterAccepts(upload[1])) => filesCreated < MaxFiles
    /\ IF upload # <<>> /\ ~MulterAccepts(upload[1])
       THEN /\ last' = [Response("upload", NONE, upload, 500, "multer error", <<>>)
                            EXCEPT !.by = "express"]
            /\ UNCHANGED <<reqs, filesData, filesCreated>>
       ELSE IF upload = <<>>
       THEN /\ last' = Response("upload", NONE, upload, 400, "No file uploaded", <<>>)
            /\ UNCHANGED <<reqs, filesData, filesCreated>>
       ELSE LET uploadedFile == createFile([mimetype |-> upload[1].mimetype,
                                            size |-> upload[1].size,
                                            status |-> "uploaded",
                                            claimId |-> NULL,
                                            userId |-> NULL], NextFileUuid)
            IN /\ filesData' = Append(filesData, uploadedFile)
               /\ filesCreated' = filesCreated + 1
               /\ reqs' = [reqs EXCEPT ![r] = [kind |-> "upload", pc |-> "created",
                                               body |-> upload, file |-> uploadedFile,
                                               invoked |-> FALSE]]
               /\ last' = NoResponse
    /\ UNCHANGED <<fileUpload, queries, usingDb, claimsData, clock, claimsCreated, geometryLog>>

\* what the handler's uploadedFile reads as: the in-memory backend returned the stored
\* object itself, which later status updates change; the relational one returned a copy
UploadedFile(r, files) ==
    IF usingDb THEN reqs[r].file
    ELSE files[CHOOSE j \in 1..Len(files) : files[j].id = reqs[r].file.id]

\* an updateFileStatus of the upload handler fails: the outer catch answers 500
UploadFailed(r) ==
    /\ last' = Response("upload", NONE, reqs[r].body, 500, "Upload failed", <<>>)
    /\ reqs' = [reqs EXCEPT ![r] = Idle]
    /\ UNCHANGED filesData

\* storage.updateFileStatus(uploadedFile.id, "processing"), then the intake stub starts
UploadProcessing(r) ==
    /\ At(r, "upload", "created")
    /\ LET res == updateFileStatus(reqs[r].file.id, "processing")
       IN IF res.err THEN UploadFailed(r)
          ELSE /\ filesData' = res.files
               /\ reqs' = [reqs EXCEPT ![r].pc = "ocr_wait", ![r].invoked = TRUE]
               /\ last' = NoResponse
    /\ UNCHANGED <<fileUpload, queries, usingDb, claimsData, clock, claimsCreated, filesCreated, geometryLog>>

\* ocrService.processFile after its delay: it throws when the file is no longer on disk
UploadOcr(r, onDisk) ==
    /\ At(r, "upload", "ocr_wait")
    /\ reqs' = [reqs EXCEPT ![r].pc = IF onDisk THEN "ocr_ok" ELSE "ocr_error"]
    /\ last' = NoResponse
    /\ UNCHANGED <<fileUpload, queries, usingDb, claimsData, filesData, clock, claimsCreated, filesCreated, geometryLog>>

\* storage.updateFileStatus(uploadedFile.id, "processed" | "failed"), then the answer
UploadFinish(r) ==
    /\ Settled /\ reqs[r].kind = "upload" /\ reqs[r].pc \in {"ocr_ok", "ocr_error"}
    /\ LET ok == reqs[r].pc = "ocr_ok"
           res == updateFileStatus(reqs[r].file.id, IF ok THEN "processed" ELSE "failed")
       IN IF res.err THEN UploadFailed(r)
          ELSE /\ filesData' = res.files
               /\ reqs' = [reqs EXCEPT ![r] = Idle]
               /\ last' = Response("upload", NONE, reqs[r].body, IF ok THEN 200 ELSE 500,
                                   IF ok THEN "" ELSE "OCR processing failed",
                                   <<[file |-> UploadedFile(r, res.files),
                                      invoked |-> reqs[r].invoked]>>)
    /\ UNCHANGED <<fileUpload, queries, usingDb, claimsData, clock, claimsCreated, filesCreated, geometryLog>>

----------------------------------------------------------------------------
(* server/services/ocrService.ts: the intake stub *)

\* the canned records; the third has no survey number.  The raw text is a record:
\* the canned text, whether digits of it were replaced by "?", and the note appended
\* at medium confidence
MockText(text) == [text |-> text, digits |-> "kept", note |-> ""]

mockResults ==
    <<[claimantName |-> "Ramesh Kumar", village |-> "Kachargaon", claimId |-> "FRA-2024-001",
       area |-> "2.45", surveyNumber |-> "123/2A", district |-> "Gadchiroli",
       state |-> "Maharashtra", rawText |-> MockText("FOREST RIGHTS ACT CLAIM FORM"),
       confidence |-> 94],
      [claimantName |-> "Sita Devi", village |-> "Bamni", claimId |-> "FRA-2024-002",
       area |-> "1.87", surveyNumber |-> "87/1B", district |-> "Gadchiroli",
       state |-> "Maharashtra", rawText |-> MockText("FOREST RIGHTS ACT CLAIM FORM (Marathi)"),
       confidence |-> 67],
      [claimantName |-> "Mohan Singh", village |-> "Mendha", claimId |-> "FRA-2024-003",
       area |-> "3.12", district |-> "Gadchiroli",
       state |-> "Maharashtra", rawText |-> MockText("FOREST RIGHTS CLAIM"),
       confidence |-> 23]>>

\* mimeType.startsWith(prefix)
StartsWith(str, prefix) ==
    Len(str) >= Len(prefix) /\ SubSeq(str, 1, Len(prefix)) = prefix

\* faulty variant: images start from a confidence of 60
BaseConfidenceLowImages(mimeType) ==
    IF mimeType = "application/pdf" THEN 90
    ELSE IF StartsWith(mimeType, "image/") THEN 60
    ELSE 85

\* baseConfidence by file type
BaseConfidence(mimeType) ==
    IF mimeType = "application/pdf" THEN 90
    ELSE IF StartsWith(mimeType, "image/") THEN 75
    ELSE 85

\* the adjustment by file size: fileSizeKB = size / 1024 is over 1000, or under 100
SizeAdjustment(size) ==
    IF size > 1000 * 1024 THEN 5
    ELSE IF size < 100 * 1024 THEN 0 - 10
    ELSE 0

Max(a, b) == IF a >= b THEN a ELSE b
Min(a, b) == IF a <= b THEN a ELSE b

\* faulty variant: no upper limit
ClampBelowOnly(tenths) == Max(150, tenths)

\* Math.max(15, Math.min(98, x)), x in tenths
Clamp(tenths) == Max(150, Min(980, tenths))

\* Math.round of a positive number given in tenths: halves round up
Round(tenths) == (tenths + 5) \div 10

\* Date.now().toString().slice(-4): the last four digits of the time in milliseconds
\* (`now` counts the milliseconds since an instant whose last four digits are 0000)
Slice4(now) ==
    LET n == now % 10000
    IN IF n < 10 THEN "000" \o ToString(n)
       ELSE IF n < 100 THEN "00" \o ToString(n)
       ELSE IF n < 1000 THEN "0" \o ToString(n)
       ELSE ToString(n)

\* processFile(filePath, mimeType).  onDisk: fs.existsSync(filePath); size: the size
\* fs.statSync reports; draw: the values of Math.random() and Date.now() the call reads
\* (perturbation: Math.random() * 20 - 10 in tenths; pick: the index of the canned
\* record; corrupt: some digit's Math.random() exceeded 0.7)
processFile(onDisk, mimeType, size, draw) ==
    IF ~onDisk THEN [err |-> TRUE, msg |-> "File not found for OCR processing", value |-> <<>>]
    ELSE
    LET baseConfidence == BaseConfidence(mimeType) + SizeAdjustment(size)
        finalConfidence == Clamp(baseConfidence * 10 + draw.perturbation)
        mockResult == mockResults[draw.pick]
        uniqueClaimId == "FRA-2024-" \o Slice4(draw.now)
        result == Spread(mockResult, [claimId |-> uniqueClaimId,
                                      confidence |-> Round(finalConfidence)])
        low == Spread(result,
                 [district |-> IF Truthy(Get(result, "district")) THEN "[UNCLEAR]" ELSE UNDEFINED,
                  surveyNumber |-> "[ILLEGIBLE]",
                  rawText |-> [result.rawText EXCEPT
                                  !.digits = IF draw.corrupt THEN "some replaced" ELSE "kept"]])
        medium == Spread(result,
                 [rawText |-> [result.rawText EXCEPT
                                  !.note = "[Some text unclear due to image quality]"]])
    IN [err |-> FALSE, msg |-> "",
        value |-> << IF result.confidence < 50 THEN low
                     ELSE IF result.confidence < 75 THEN medium
                     ELSE result >>]

\* a call of processFile and what it returns (status 0: no response of a route; id:
\* the claim code returned; after: the code the call before it returned).  A call that
\* follows another reads a time that is not earlier.
ProcessFile(onDisk, mimeType, size, draw) ==
    /\ Exclusive
    /\ last.kind \in {"none", "processFile"}
    /\ last.kind = "processFile" => draw.now >= last.body.draw.now
    /\ LET res == processFile(onDisk, mimeType, size, draw)
       IN last' = [Response("processFile",
                            IF res.err THEN NONE ELSE res.value[1].claimId,
                            [onDisk |-> onDisk, mimeType |-> mimeType, size |-> size,
                             draw |-> draw],
                            0, res.msg, res.value)
                       EXCEPT !.after = IF last.kind = "processFile"
                                        THEN [kind |-> last.kind, id |-> last.id]
                                        ELSE [kind |-> "none"]]
    /\ UNCHANGED <<fileUpload, queries, usingDb, claimsData, filesData, clock, reqs, claimsCreated, filesCreated,
                   geometryLog>>

----------------------------------------------------------------------------
(* client/src/hooks/useFileUpload.ts *)

InitialUploadState == [isUploading |-> FALSE, uploadProgress |-> 0, error |-> NULL]

\* uploadFile up to its await: the state is reset to uploading, the progress interval
\* is started and api.uploadFile is called.  A call and its interval have the number
\* of the call.
UploadFile ==
    /\ fileUpload.calls < MaxUploadCalls
    /\ LET call == fileUpload.calls + 1
       IN fileUpload' = [fileUpload EXCEPT
              !.uploadState = [isUploading |-> TRUE, uploadProgress |-> 0, error |-> NULL],
              !.intervals = @ \cup {call},
              !.pending = @ \cup {call},
              !.calls = call,
              !.step = "uploadFile"]
    /\ UNCHANGED <<queries, usingDb, claimsData, filesData, clock, reqs, last, claimsCreated,
                   filesCreated, geometryLog>>

\* a live interval fires: uploadProgress: Math.min(prev.uploadProgress + 10, 90)
ProgressInterval(interval) ==
    /\ interval \in fileUpload.intervals
    /\ fileUpload' = [fileUpload EXCEPT
           !.uploadState.uploadProgress = Min(@ + 10, 90),
           !.step = "interval"]
    /\ UNCHANGED <<queries, usingDb, claimsData, filesData, clock, reqs, last, claimsCreated,
                   filesCreated, geometryLog>>

\* api.uploadFile resolves: the call's interval is cleared, the state is set to done
UploadResolved(call) ==
    /\ call \in fileUpload.pending
    /\ fileUpload' = [fileUpload EXCEPT
           !.intervals = @ \ {call},
           !.uploadState = [isUploading |-> FALSE, uploadProgress |-> 100, error |-> NULL],
           !.ocrResult = <<call>>,
           !.pending = @ \ {call},
           !.step = "resolved"]
    /\ UNCHANGED <<queries, usingDb, claimsData, filesData, clock, reqs, last, claimsCreated,
                   filesCreated, geometryLog>>

\* api.uploadFile rejects: the catch sets the error; progressInterval is a const of the
\* try block, and the catch does not clear it
UploadRejected(call, message) ==
    /\ call \in fileUpload.pending
    /\ fileUpload' = [fileUpload EXCEPT
           !.uploadState = [isUploading |-> FALSE, uploadProgress |-> 0, error |-> message],
           !.pending = @ \ {call},
           !.step = "rejected"]
    /\ UNCHANGED <<queries, usingDb, claimsData, filesData, clock, reqs, last, claimsCreated,
                   filesCreated, geometryLog>>

resetUpload ==
    /\ fileUpload' = [fileUpload EXCEPT
           !.uploadState = InitialUploadState,
           !.ocrResult = <<>>,
           !.step = "resetUpload"]
    /\ UNCHANGED <<queries, usingDb, claimsData, filesData, clock, reqs, last, claimsCreated,
                   filesCreated, geometryLog>>

----------------------------------------------------------------------------
(* client: the queries of ClaimsTable, StatsGrid and the map components, and the  *)
(* mutations of ClaimsTable and OCRReviewModal                                    *)

\* the query keys in use: ClaimsTable with its default limit and with the dashboard's,
\* StatsGrid, and the map components
QueryKeys ==
    {<<"/api/claims", 50>>, <<"/api/claims", 10>>, <<"/api/dashboard/stats">>,
     <<"/api/map/claims">>}

\* a query filter matches the keys it is a prefix of
Matches(filter, key) ==
    Len(filter) <= Len(key) /\ SubSeq(key, 1, Len(filter)) = filter

\* queryClient.invalidateQueries({ queryKey: filter })
invalidateQueries(entries, filter) ==
    [key \in DOMAIN entries |->
        IF Matches(filter, key) /\ entries[key] # <<>>
        THEN <<[entries[key][1] EXCEPT !.invalidated = TRUE]>>
        ELSE entries[key]]

\* a query is fetched when it has no data yet, and again once it is invalidated
NeedsFetch(key) ==
    IF queries.entries[key] = <<>> THEN TRUE ELSE queries.entries[key][1].invalidated

\* the key of the query a response answers
QueryKeyOf(response) ==
    CASE response.kind = "getClaims" -> <<"/api/claims", ParseInt(response.body)>>
      [] response.kind = "stats" -> <<"/api/dashboard/stats">>
      [] response.kind = "mapClaims" -> <<"/api/map/claims">>

\* a queryFn resolves: the response becomes the data of its query
QueryFetched ==
    /\ last.kind \in {"getClaims", "stats", "mapClaims"} /\ last.status = 200
    /\ queries' = [entries |-> [queries.entries EXCEPT ![QueryKeyOf(last)] =
                                   <<[data |-> last.value, invalidated |-> FALSE]>>],
                   step |-> "fetched"]
    /\ last' = NoResponse
    /\ UNCHANGED <<fileUpload, usingDb, claimsData, filesData, clock, reqs, claimsCreated,
                   filesCreated, geometryLog>>

\* onSuccess of saveOCRMutation (the save answered 201) and of deleteMutation (the
\* delete answered 204): the same two invalidations
MutationSucceeded ==
    /\ \/ last.kind = "ocrSave" /\ last.status = 201
       \/ last.kind = "deleteClaim" /\ last.status = 204
    /\ queries' = [entries |-> invalidateQueries(
                                   invalidateQueries(queries.entries, <<"/api/claims">>),
                                   <<"/api/dashboard/stats">>),
                   step |-> IF last.kind = "ocrSave" THEN "saved" ELSE "deleted"]
    /\ last' = NoResponse
    /\ UNCHANGED <<fileUpload, usingDb, claimsData, filesData, clock, reqs, claimsCreated,
                   filesCreated, geometryLog>>

----------------------------------------------------------------------------
(* The state after construction *)

Init ==
    /\ usingDb \in BOOLEAN
    /\ claimsData = <<>>
    /\ filesData = <<>>
    /\ clock = 0
    /\ reqs = [r \in Slots |-> Idle]
    /\ last = NoResponse
    /\ claimsCreated = 0
    /\ filesCreated = 0
    /\ geometryLog = [id \in {UuidPool[i] : i \in 1..Len(UuidPool)} |->
                         [saved |-> NONE, written |-> NONE]]
    /\ fileUpload = [uploadState |-> InitialUploadState, ocrResult |-> <<>>,
                     pending |-> {}, intervals |-> {}, calls |-> 0, step |-> "mount"]
    /\ queries = [entries |-> [key \in QueryKeys |-> <<>>], step |-> "mount"]

\* time passes
Tick ==
    /\ Settled
    /\ clock < MaxClock
    /\ clock' = clock + 1
    /\ last' = NoResponse
    /\ UNCHANGED <<fileUpload, queries, usingDb, claimsData, filesData, reqs, claimsCreated, filesCreated,
                   geometryLog>>

\* the client takes the response
Receive ==
    /\ ~Settled
    /\ last' = NoResponse
    /\ UNCHANGED <<fileUpload, queries, usingDb, claimsData, filesData, clock, reqs, claimsCreated, filesCreated,
                   geometryLog>>

----------------------------------------------------------------------------
(* Requests the clients send *)

Codes == {"FRA-2024-001", "FRA-2024-002"}
\* the ids a client can name: those of the claims created so far and one of no claim
KnownIds == {UuidPool[i] : i \in 1..claimsCreated}
RequestIds == KnownIds \cup {UnknownId}

ClaimBody(code) ==
    [claimId |-> code, claimantName |-> "Ramesh Kumar", village |-> "Mendha", area |-> "1.50"]

\* bodies of POST /api/claims: with and without a status, and one without a village
PostBodies ==
    {ClaimBody(c) : c \in Codes}
    \cup {Spread(ClaimBody(c), [status |-> "approved"]) : c \in Codes}
    \cup {[claimId |-> "FRA-2024-001", claimantName |-> "Ramesh Kumar", area |-> "1.50"]}

\* bodies of POST /api/ocr/save: complete, and one without a claim code
OcrBodies ==
    {ClaimBody(c) : c \in Codes}
    \cup {[claimantName |-> "Ramesh Kumar", village |-> "Mendha", area |-> "1.50"]}

StatusPatches == {[status |-> "approved"]}

\* Requests on the claims, interleaved at the handlers' awaits
Next ==
    \/ \E body \in PostBodies : PostClaim(body)
    \/ \E id \in RequestIds, body \in StatusPatches : PatchClaim(id, body)
    \/ \E id \in RequestIds : DeleteClaim(id)
    \/ \E r \in Slots :
        \/ \E body \in OcrBodies : OcrSaveCheck(r, body)
        \/ OcrSaveInsert(r)
        \/ DashboardStats(r)
        \/ DashboardStatsQuery(r)
    \/ Receive

Spec == Init /\ [][Next]_vars

----------------------------------------------------------------------------
(* Uploads, the saves that name an uploaded file, and deletions *)

Uploads ==
    {<<>>}
    \cup {<<[mimetype |-> m, size |-> n]>> :
             m \in {"application/pdf", "text/plain"},
             n \in {2 * 1024 * 1024, FileSizeLimit + 1}}

FileIds == {FileUuidPool[i] : i \in 1..MaxFiles} \cup {"file-none"}

\* what a reviewed extraction adds to the body: confidence and raw text, here with a
\* status and a geometry the handler does not copy
Reviewed ==
    [confidence |-> "87", rawText |-> "FRA claim form", status |-> "approved",
     boundaryGeometry |-> "polygon-1"]

\* bodies of POST /api/ocr/save: bare, and naming a file (stored or not)
FileOcrBodies ==
    {ClaimBody("FRA-2024-001")}
    \cup {Spread(ClaimBody("FRA-2024-001"), [fileId |-> f]) : f \in FileIds}

NextFiles ==
    \/ \E id \in RequestIds : DeleteClaim(id)
    \/ \E r \in Slots :
        \/ \E upload \in Uploads : Upload(r, upload)
        \/ UploadProcessing(r)
        \/ \E onDisk \in BOOLEAN : UploadOcr(r, onDisk)
        \/ UploadFinish(r)
        \/ \E body \in FileOcrBodies : OcrSaveCheck(r, body)
        \/ OcrSaveInsert(r)
        \/ OcrSaveFile(r)
    \/ Receive

SpecFiles == Init /\ [][NextFiles]_vars

\* bodies of POST /api/ocr/save after a review: naming the uploaded file, and with
\* confidence 0 and an empty raw text
ReviewBodies ==
    {Spread(ClaimBody("FRA-2024-001"), Spread(Reviewed, [fileId |-> FileUuidPool[1]])),
     Spread(ClaimBody("FRA-2024-002"), Spread(Reviewed, [confidence |-> "62"])),
     Spread(ClaimBody("FRA-2024-002"), [confidence |-> ZERO, rawText |-> EMPTY])}

\* an upload, then the save of its reviewed extraction
NextReview ==
    \/ \E r \in Slots :
        \/ Upload(r, <<[mimetype |-> "application/pdf", size |-> 2 * 1024 * 1024]>>)
        \/ UploadProcessing(r)
        \/ \E onDisk \in BOOLEAN : UploadOcr(r, onDisk)
        \/ UploadFinish(r)
        \/ \E body \in ReviewBodies : OcrSaveCheck(r, body)
        \/ OcrSaveInsert(r)
        \/ OcrSaveFile(r)
    \/ Receive

SpecReview == Init /\ [][NextReview]_vars

\* the ids of the file records whose upload has answered: the response carries the
\* record, and no other route returns a file's id
AnsweredFileIds ==
    {filesData[i].id : i \in {j \in 1..Len(filesData) :
        \A r \in Slots : reqs[r].kind = "upload" => reqs[r].file.id # filesData[j].id}}

\* bodies of POST /api/ocr/save naming the file of an answered upload, or no file
AnsweredOcrBodies ==
    {ClaimBody(c) : c \in Codes}
    \cup {Spread(ClaimBody(c), [fileId |-> f]) : c \in Codes, f \in AnsweredFileIds}

\* uploads in flight together, and saves of the extractions already answered
NextUpload ==
    \/ \E r \in Slots :
        \/ \E upload \in Uploads : Upload(r, upload)
        \/ UploadProcessing(r)
        \/ \E onDisk \in BOOLEAN : UploadOcr(r, onDisk)
        \/ UploadFinish(r)
        \/ Settled /\ \E body \in AnsweredOcrBodies : OcrSaveCheck(r, body)
        \/ OcrSaveInsert(r)
        \/ OcrSaveFile(r)
    \/ Receive

\* Each await of the upload handler resolves whatever the other requests do: the
\* store calls return and the timer of the intake stub fires; the client takes every
\* response.
SpecUpload ==
    /\ Init /\ [][NextUpload]_vars
    /\ \A r \in Slots :
        /\ SF_(reqs[r].pc)(UploadProcessing(r))
        /\ SF_(reqs[r].pc)(\E onDisk \in BOOLEAN : UploadOcr(r, onDisk))
        /\ SF_(reqs[r].pc)(UploadFinish(r))
    /\ WF_(last.kind)(Receive)

\* uploads, saves naming a file, updates and deletions, one request at a time
NextKeep ==
    \/ Exclusive /\ \E id \in RequestIds : DeleteClaim(id)
    \/ Exclusive /\ \E id \in RequestIds, body \in StatusPatches : PatchClaim(id, body)
    \/ \E r \in Slots :
        \/ Exclusive /\ \E upload \in Uploads : Upload(r, upload)
        \/ UploadProcessing(r)
        \/ \E onDisk \in BOOLEAN : UploadOcr(r, onDisk)
        \/ UploadFinish(r)
        \/ Exclusive /\ \E body \in FileOcrBodies : OcrSaveCheck(r, body)
        \/ OcrSaveInsert(r)
        \/ OcrSaveFile(r)
    \/ Receive

SpecKeep == Init /\ [][NextKeep]_vars

\* inputs of processFile: file types, sizes around the two thresholds, and draws at
\* the ends of their ranges
OcrMimeTypes == {"application/pdf", "image/png", "text/plain"}
OcrSizes == {50 * 1024, 500 * 1024, 2 * 1024 * 1024}
Perturbations == {0 - 100, 0 - 95, 99}
Times == {1234, 11234}
Draws ==
    [perturbation : Perturbations, pick : {1, 3}, now : Times, corrupt : BOOLEAN]

NextOcr ==
    \/ \E onDisk \in BOOLEAN, mimeType \in OcrMimeTypes, size \in OcrSizes, draw \in Draws :
           ProcessFile(onDisk, mimeType, size, draw)
    \/ Receive

SpecOcr == Init /\ [][NextOcr]_vars

----------------------------------------------------------------------------
(* Requests sent one after the other: a request is dispatched when none is in flight *)

Geometries == {"polygon-1", "polygon-2"}

\* bodies of POST /api/claims with and without a boundary geometry
GeoBodies ==
    {ClaimBody("FRA-2024-001"),
     Spread(ClaimBody("FRA-2024-002"), [boundaryGeometry |-> "polygon-1"])}

\* bodies of PATCH that set the geometry (to a value, to null, to the number 0) or
\* another field
GeoPatches ==
    {[boundaryGeometry |-> "polygon-2"], [boundaryGeometry |-> NULL],
     [boundaryGeometry |-> ZERO], [status |-> "approved"]}

NextGeo ==
    \/ Exclusive /\ claimsCreated < MaxGeoClaims /\ \E body \in GeoBodies : PostClaim(body)
    \/ Exclusive /\ \E id \in KnownIds, body \in GeoPatches : PatchClaim(id, body)
    \/ Exclusive /\ \E id \in KnownIds, g \in Geometries \cup {NULL} : SaveBoundary(id, g)
    \/ Exclusive /\ \E id \in KnownIds : DeleteClaim(id)
    \/ Exclusive /\ \E r \in Slots : MapClaims(r)
    \/ \E r \in Slots : MapClaimsFiles(r)
    \/ Receive

SpecGeo == Init /\ [][NextGeo]_vars

\* the n-th claim of the large map: a code of its own and a boundary
ManyBody(n) ==
    Spread(ClaimBody("FRA-2025-" \o ToString(n)), [boundaryGeometry |-> "polygon-1"])

\* claims with a boundary created one after the other, and the map read, on the
\* in-memory backend (the relational one reads with the same default limit)
NextMapMany ==
    \/ Exclusive /\ PostClaimWithin(ManyBody(claimsCreated + 1), MaxMapClaims)
    \/ Exclusive /\ \E r \in Slots : MapClaims(r)
    \/ Receive

\* storage.ts:242-243 without DATABASE_URL
InitMemory == Init /\ ~usingDb

SpecMapMany == InitMemory /\ [][NextMapMany]_vars

\* The pages of one client.  Claims are created through the API, two of them with a
\* boundary, before the pages load; then the pages fetch their queries, and the client
\* saves reviewed extractions and deletes claims, one request at a time.
NextPages ==
    \/ /\ Exclusive /\ \A key \in QueryKeys : queries.entries[key] = <<>>
       /\ \E body \in GeoBodies : PostClaim(body)
    \/ Exclusive /\ \E r \in Slots, n \in {10, 50} :
           NeedsFetch(<<"/api/claims", n>>) /\ GetClaims(r, ToString(n))
    \/ \E r \in Slots : GetClaimsFiles(r)
    \/ Exclusive /\ NeedsFetch(<<"/api/dashboard/stats">>) /\ \E r \in Slots : DashboardStats(r)
    \/ \E r \in Slots : DashboardStatsQuery(r)
    \/ Exclusive /\ NeedsFetch(<<"/api/map/claims">>) /\ \E r \in Slots : MapClaims(r)
    \/ \E r \in Slots : MapClaimsFiles(r)
    \/ QueryFetched
    \/ Exclusive /\ Settled /\ \E r \in Slots, c \in Codes : OcrSaveCheck(r, ClaimBody(c))
    \/ \E r \in Slots : OcrSaveInsert(r)
    \/ Exclusive /\ Settled /\ \E id \in KnownIds : DeleteClaim(id)
    \/ MutationSucceeded
    \/ /\ \/ last.kind = "postClaim"
          \/ last.kind = "ocrSave" /\ last.status # 201
          \/ last.kind = "deleteClaim" /\ last.status # 204
       /\ Receive

SpecPages == Init /\ [][NextPages]_vars

\* the hook: uploads that resolve or reject, intervals firing, resets
NextHook ==
    \/ UploadFile
    \/ \E interval \in 1..MaxUploadCalls : ProgressInterval(interval)
    \/ \E call \in 1..MaxUploadCalls : UploadResolved(call)
    \/ \E call \in 1..MaxUploadCalls, message \in {"OCR processing failed"} :
           UploadRejected(call, message)
    \/ resetUpload

SpecHook == Init /\ [][NextHook]_vars

\* creations, saves and deletions by one client, each request answered before the next
NextSeq ==
    \/ Exclusive /\ \E body \in PostBodies : PostClaim(body)
    \/ Exclusive /\ \E id \in RequestIds : DeleteClaim(id)
    \/ Exclusive /\ \E r \in Slots, body \in OcrBodies : OcrSaveCheck(r, body)
    \/ \E r \in Slots : OcrSaveInsert(r)
    \/ Receive

SpecSeq == Init /\ [][NextSeq]_vars

\* the limit of GET /api/claims?limit=N: absent, 0, 1 and -1
QueryLimits == {UNDEFINED, "0", "1", "-1"}

\* creations, updates, deletions and listings, one request at a time
NextList ==
    \/ Exclusive /\ \E c \in Codes : PostClaim(ClaimBody(c))
    \/ Exclusive /\ \E id \in KnownIds, body \in StatusPatches : PatchClaim(id, body)
    \/ Exclusive /\ \E id \in KnownIds : DeleteClaim(id)
    \/ Exclusive /\ \E r \in Slots, q \in QueryLimits : GetClaims(r, q)
    \/ \E r \in Slots : GetClaimsFiles(r)
    \/ Tick
    \/ Receive

SpecList == Init /\ [][NextList]_vars

\* bodies whose status is absent, one of the enumeration, or not
StatusBodies ==
    {ClaimBody("FRA-2024-001"),
     Spread(ClaimBody("FRA-2024-001"), [status |-> "approved"]),
     Spread(ClaimBody("FRA-2024-002"), [status |-> "granted"])}

StatusChanges == {[status |-> "rejected"], [status |-> "granted"], [status |-> NULL]}

\* every route that writes a claim, with valid and invalid statuses, one request at
\* a time
NextStatus ==
    \/ Exclusive /\ \E body \in StatusBodies : PostClaim(body)
    \/ Exclusive /\ \E id \in KnownIds, body \in StatusChanges : PatchClaim(id, body)
    \/ Exclusive /\ \E id \in KnownIds : SaveBoundary(id, "polygon-1")
    \/ Exclusive /\ \E id \in KnownIds : DeleteClaim(id)
    \/ Exclusive /\ \E r \in Slots, body \in StatusBodies : OcrSaveCheck(r, body)
    \/ \E r \in Slots : OcrSaveInsert(r)
    \/ Receive

SpecStatus == Init /\ [][NextStatus]_vars

\* bodies of PATCH naming one field, two fields, and keys the schema does not have
FramePatches ==
    {[status |-> "approved"],
     [claimantName |-> "Sita Devi", area |-> "2.5"],
     [status |-> "approved", createdAt |-> 0 - 1, updatedAt |-> 0 - 1],
     [status |-> "granted"]}

NextFrame ==
    \/ claimsCreated < MaxFrameClaims /\ \E body \in {ClaimBody("FRA-2024-001")} : PostClaim(body)
    \/ \E id \in RequestIds, body \in FramePatches : PatchClaim(id, body)
    \/ \E id \in KnownIds, g \in {"polygon-1", UNDEFINED} : SaveBoundary(id, g)
    \/ \E r \in Slots, id \in RequestIds : GetClaim(r, id)
    \/ \E r \in Slots : GetClaimFiles(r)
    \/ Tick
    \/ Receive

SpecFrame == Init /\ [][NextFrame]_vars

\* bodies whose area is each of the decimal texts, a negative one included
AreaBodies ==
    {Spread(ClaimBody(c), [area |-> a]) : c \in Codes, a \in Areas}

AreaPatches == {[area |-> a] : a \in Areas}

\* every route that writes an area, one request at a time
NextArea ==
    \/ Exclusive /\ \E body \in AreaBodies : PostClaim(body)
    \/ Exclusive /\ \E id \in KnownIds, body \in AreaPatches : PatchClaim(id, body)
    \/ Exclusive /\ \E r \in Slots, body \in AreaBodies : OcrSaveCheck(r, body)
    \/ \E r \in Slots : OcrSaveInsert(r)
    \/ Receive

SpecArea == Init /\ [][NextArea]_vars

----------------------------------------------------------------------------
(* Properties *)

CountCode(code) == Len(SelectSeq(claimsData, LAMBDA c : Get(c, "claimId") = code))

\* C1: no two stored claims share a claim code (creating a claim whose code is
\* already stored fails and stores nothing), on either backend.
C1_ClaimCodesUnique ==
    \A i, j \in 1..Len(claimsData) :
        i # j => Get(claimsData[i], "claimId") # Get(claimsData[j], "claimId")

\* C2: a save (POST /api/ocr/save) that passed its existence check and reaches its
\* insert after a claim with its code has been stored in the meantime stores nothing
\* and is answered 400: of two racing saves at most one stores a claim.
C2_RacingSaveRejected ==
    [][\A r \in Slots :
         (/\ reqs[r].kind = "ocrSave" /\ reqs[r].pc = "insert"
          /\ reqs'[r] # reqs[r]
          /\ CodeExists(claimsData, reqs[r].body.claimId))
         => (claimsData' = claimsData /\ last'.kind = "ocrSave" /\ last'.status = 400)]_vars

\* C2 witness: a save lost the race: it passed the check, then its insert was refused
C2_Witness ==
    /\ last.kind = "ocrSave" /\ last.status = 400
    /\ last.msg = "Failed to save claim data"
    /\ "fileId" \notin DOMAIN last.body
    /\ CountCode(last.body.claimId) = 1

\* the request `body` is a complete save sent right after a save of the same claim
\* code was answered 201
FollowsSaved(after, body) ==
    /\ after.kind = "ocrSave"
    /\ after.status = 201
    /\ \A k \in OcrRequired : Truthy(Get(body, k))
    /\ after.body.claimId = body.claimId

\* C3: of two saves with the same claim code sent one after the other by a client
\* whose requests are answered one at a time, the first
\* answered 201, the second is answered 400 "Claim ID already exists" (it never gets
\* past the existence check) and the store then holds exactly one claim with the code.
C3_SecondSaveRejected ==
    /\ \A r \in Slots : reqs[r].kind = "ocrSave" => ~FollowsSaved(reqs[r].after, reqs[r].body)
    /\ (last.kind = "ocrSave" /\ FollowsSaved(last.after, last.body))
         => /\ last.status = 400
            /\ last.msg = "Claim ID already exists"
            /\ CountCode(last.body.claimId) = 1

C3_Witness ==
    last.kind = "ocrSave" /\ FollowsSaved(last.after, last.body) /\ last.status = 400

\* C4: every result of getDashboardStats has processed <= totalClaims and
\* pending <= totalClaims, on either backend, whatever other requests do meanwhile.
C4_StatsWithinTotal ==
    last.kind = "stats"
        => /\ last.value.processed <= last.value.totalClaims
           /\ last.value.pending <= last.value.totalClaims

\* C8: a DELETE /api/claims/:id whose id matches no stored claim, in particular a
\* second delete of a claim already deleted, is answered 404 (deleteClaim returned
\* false) and leaves the stored claims and the stored file records as they were.
C8_DeleteUnknownNoChange ==
    [][(/\ last'.kind = "deleteClaim"
        /\ \/ ~IdExists(claimsData, last'.id)
           \/ (last'.after.kind = "deleteClaim" /\ last'.after.id = last'.id))
       => (/\ last'.status = 404
           /\ claimsData' = claimsData
           /\ filesData' = filesData)]_vars

\* C8 witness: a claim was deleted (204), deleted again (404), with claims and file
\* records in the store
C8_Witness ==
    /\ last.kind = "deleteClaim" /\ last.status = 404
    /\ last.after.kind = "deleteClaim" /\ last.after.id = last.id /\ last.after.status = 204
    /\ Len(claimsData) > 0
    /\ Len(filesData) > 0

\* the file of an upload is over 10 MB or is not a PDF, JPEG or PNG
OversizedOrDisallowed(file) ==
    \/ file.size > 10 * 1024 * 1024
    \/ file.mimetype \notin {"application/pdf", "image/jpeg", "image/jpg", "image/png"}

\* C9: a POST /api/upload whose file is over 10 MB or is not a PDF, JPEG or PNG is
\* answered with an error before storage.createFile runs: the file records are
\* unchanged by the request, no file identifier is used and no request is left in
\* flight to invoke the intake stub.
C9_RejectedUploadNoRecord ==
    [][(/\ last'.kind = "upload"
        /\ last'.body # <<>>
        /\ OversizedOrDisallowed(last'.body[1]))
       => (/\ last'.status >= 400
           /\ last'.value = <<>>
           /\ filesData' = filesData
           /\ filesCreated' = filesCreated
           /\ reqs' = reqs)]_vars

\* C9 witness: an oversized PDF was rejected while an earlier upload is being processed
C9_Witness ==
    /\ last.kind = "upload" /\ last.status >= 400
    /\ last.body # <<>>
    /\ last.body[1].mimetype = "application/pdf"
    /\ last.body[1].size > 10 * 1024 * 1024
    /\ Len(filesData) > 0
    /\ \E r \in Slots : reqs[r].kind = "upload"

\* the features of the map answered by the step that led to this state
MapFeatures == last.value.features

\* C5 (as stated): the geometry of every feature of GET /api/map/claims is the
\* geometry last saved for its claim through POST /api/claims/:id/boundary.
C5_GeometryIsLastBoundarySave ==
    last.kind = "mapClaims"
        => \A i \in DOMAIN MapFeatures :
               MapFeatures[i].geometry = geometryLog[MapFeatures[i].properties.id].saved

\* C5 (amended): the geometry of every feature of GET /api/map/claims is the geometry
\* last written to its claim, by POST /api/claims, by PATCH /api/claims/:id or by
\* POST /api/claims/:id/boundary, whichever came last.
C5_GeometryIsLastWritten ==
    last.kind = "mapClaims"
        => \A i \in DOMAIN MapFeatures :
               MapFeatures[i].geometry = geometryLog[MapFeatures[i].properties.id].written

\* C5 witness: the map shows the geometry a PATCH wrote over a saved boundary
C5_Witness ==
    /\ last.kind = "mapClaims"
    /\ \E i \in DOMAIN MapFeatures :
           /\ MapFeatures[i].geometry = "polygon-2"
           /\ geometryLog[MapFeatures[i].properties.id].saved = "polygon-1"

\* the stored field a property of a feature is taken from
PropertySource ==
    [id |-> "id", claimId |-> "claimId", claimantName |-> "claimantName",
     village |-> "village", district |-> "district", state |-> "state",
     area |-> "area", status |-> "status", ocrConfidence |-> "ocrConfidence"]

\* C6: the FeatureCollection of GET /api/map/claims has no feature for a stored claim
\* whose boundary geometry is null or absent, and each feature belongs to a stored
\* claim and carries its id, code, claimant, village, district, state, area, status
\* and confidence as stored.
C6_FeaturesOfStoredGeometry ==
    last.kind = "mapClaims"
        => /\ \A j \in 1..Len(claimsData) :
                  Get(claimsData[j], "boundaryGeometry") \in {NULL, UNDEFINED}
                      => \A i \in DOMAIN MapFeatures :
                             MapFeatures[i].properties.id # claimsData[j].id
           /\ \A i \in DOMAIN MapFeatures :
                  /\ DOMAIN MapFeatures[i].properties = DOMAIN PropertySource
                  /\ \E j \in 1..Len(claimsData) :
                         \A k \in DOMAIN PropertySource :
                             MapFeatures[i].properties[k] = Get(claimsData[j], PropertySource[k])

\* C6 witness: the map shows an approved claim that has a geometry
C6_Witness ==
    /\ last.kind = "mapClaims"
    /\ Len(MapFeatures) = 1
    /\ MapFeatures[1].properties.status = "approved"
    /\ MapFeatures[1].properties.claimId = "FRA-2024-002"

\* C6 witness of the other case: a claim whose geometry was set to null is not shown
C6_WitnessFiltered ==
    /\ last.kind = "mapClaims"
    /\ Len(MapFeatures) = 0
    /\ \E j \in 1..Len(claimsData) :
           /\ Get(claimsData[j], "boundaryGeometry") = NULL
           /\ geometryLog[claimsData[j].id].saved = "polygon-1"

\* the claim stored under the id of the response, after the step
ClaimAfter == StoredClaim(last.id)[1]

\* C7: an updateClaim of an existing claim, through PATCH /api/claims/:id or
\* POST /api/claims/:id/boundary with any accepted body, leaves the claim's createdAt
\* as it was and sets an updatedAt that is not before the one it had.
C7_UpdateKeepsCreatedAt ==
    (/\ last.kind \in {"patchClaim", "saveBoundary"}
     /\ last.status = 200
     /\ last.before # <<>>)
    => /\ ClaimAfter.createdAt = last.before[1].createdAt
       /\ ClaimAfter.updatedAt >= last.before[1].updatedAt
       /\ last.value = <<ClaimAfter>>

\* C7 witness: a PATCH naming createdAt and updatedAt was accepted, at a later reading
\* of the clock than the claim's creation
C7_Witness ==
    /\ last.kind = "patchClaim" /\ last.status = 200 /\ last.before # <<>>
    /\ "createdAt" \in DOMAIN last.body
    /\ ClaimAfter.updatedAt > last.before[1].updatedAt

\* C7 witness for the boundary endpoint
C7_WitnessBoundary ==
    /\ last.kind = "saveBoundary" /\ last.status = 200 /\ last.before # <<>>
    /\ ClaimAfter.updatedAt > ClaimAfter.createdAt

\* two values of a field are the same value: an area is compared as a decimal number
SameValue(k, a, b) == IF k = "area" THEN AreaCents(a) = AreaCents(b) ELSE a = b

\* C10: a GET /api/claims/:id sent right after a PATCH of the same, existing claim was
\* answered 200 returns the PATCH's values for the fields its body named and, for every
\* other field but updatedAt, the value the claim had before the PATCH.
C10_PatchChangesNamedFieldsOnly ==
    (/\ last.kind = "getClaim"
     /\ last.after.kind = "patchClaim"
     /\ last.after.status = 200
     /\ last.after.id = last.id
     /\ last.after.before # <<>>)
    => /\ last.status = 200
       /\ LET claim == last.value[1].claim
              before == last.after.before[1]
              named == DOMAIN last.after.body \cap InsertClaimKeys
          IN /\ DOMAIN claim = DOMAIN before \cup named
             /\ \A k \in named : SameValue(k, claim[k], last.after.body[k])
             /\ \A k \in DOMAIN before \ (named \cup {"updatedAt"}) : claim[k] = before[k]
             /\ claim.updatedAt >= before.updatedAt

\* C10 witness: after PATCH {status: approved} the GET shows the claim approved, with
\* the claimant it had
C10_Witness ==
    /\ last.kind = "getClaim" /\ last.status = 200
    /\ last.after.kind = "patchClaim" /\ last.after.status = 200 /\ last.after.id = last.id
    /\ last.after.before # <<>>
    /\ last.after.body = [status |-> "approved"]
    /\ last.after.before[1].status = "pending"
    /\ last.value[1].claim.status = "approved"
    /\ last.value[1].claim.claimantName = "Ramesh Kumar"

\* the status changes of file records the upload flow is meant to make
FileStatusSteps ==
    {<<"uploaded", "processing">>, <<"processing", "processed">>, <<"processing", "failed">>}

\* C11: the status of a file record changes only from uploaded to processing, from
\* processing to processed or from processing to failed.
C11_FileStatusSteps ==
    [][\A i \in 1..Len(filesData), j \in 1..Len(filesData') :
          (filesData'[j].id = filesData[i].id /\ filesData'[j].status # filesData[i].status)
              => <<filesData[i].status, filesData'[j].status>> \in FileStatusSteps]_vars

\* C12: a file record whose status is failed keeps that status in every later state.
C12_FailedStaysFailed ==
    [][\A i \in 1..Len(filesData), j \in 1..Len(filesData') :
          (filesData'[j].id = filesData[i].id /\ filesData[i].status = "failed")
              => filesData'[j].status = "failed"]_vars

\* the file record with the id
FileOfId(id) == filesData[CHOOSE i \in 1..Len(filesData) : filesData[i].id = id]

\* C13: after a POST /api/ocr/save answered 201 whose body carries the id of a stored
\* file, the file's claim reference is the id of the created claim; a file that no
\* such save named has a null claim reference.
C13_SavedFileLinked ==
    /\ (/\ last.kind = "ocrSave" /\ last.status = 201
        /\ Truthy(Get(last.body, "fileId"))
        /\ FileExists(Get(last.body, "fileId")))
       => FileOfId(last.body.fileId).claimId = last.value[1].id
    /\ \A i \in 1..Len(filesData) :
           filesData[i].claimId # NULL => filesData[i].status = "processed"

\* C16: an updateFileStatus with an id that matches no stored file fails and changes no
\* file record: the save that calls it with such a fileId is answered with an error.
C16_UnknownFileStatusFails ==
    [][\A r \in Slots :
          (/\ reqs[r].kind = "ocrSave" /\ reqs[r].pc = "file"
           /\ reqs'[r] # reqs[r]
           /\ ~FileExists(reqs[r].body.fileId))
          => (/\ updateFileStatus(reqs[r].body.fileId, "processed").err
              /\ last'.status = 400
              /\ filesData' = filesData)]_vars

\* C14: the claim a POST /api/ocr/save answered 201 created has status pending, a null
\* boundary geometry, the submitted confidence as ocrConfidence and the submitted raw
\* text as rawOcrText, whatever else the body carries; a stored file the body names
\* has status processed.
C14_SavedClaimFields ==
    (last.kind = "ocrSave" /\ last.status = 201)
    => LET claim == last.value[1]
       IN /\ claim.status = "pending"
          /\ claim.boundaryGeometry = NULL
          /\ "confidence" \in DOMAIN last.body => claim.ocrConfidence = last.body.confidence
          /\ "rawText" \in DOMAIN last.body => claim.rawOcrText = last.body.rawText
          /\ (Truthy(Get(last.body, "fileId")) /\ FileExists(Get(last.body, "fileId")))
                 => FileOfId(last.body.fileId).status = "processed"

\* C15: an updateClaim with an id that matches no stored claim signals failure and
\* leaves the store unchanged: PATCH /api/claims/:id and POST /api/claims/:id/boundary
\* on an unknown id are never answered 200.
C15_UpdateUnknownNot200 ==
    (last.kind \in {"patchClaim", "saveBoundary"} /\ ~IdExists(claimsData, last.id))
        => /\ last.status # 200
           /\ updateClaim(last.id, ParsedClaim(last.body)).err

\* C17: the two backends implement one contract: a store operation a request has
\* just applied without changing the stored claims (a refused creation, an update or
\* a deletion of an id not stored) succeeds on both implementations or fails on both,
\* and returns a value on both or on neither, when applied to these stored claims.
C17_BackendsAgree ==
    /\ (last.kind = "postClaim" /\ last.status = 400 /\ InsertClaimValid(last.body))
           => DbCreateClaim(ParsedClaim(last.body), NextClaimUuid).err
                  = MemCreateClaim(ParsedClaim(last.body), NextClaimUuid).err
    /\ (/\ last.kind = "patchClaim" /\ PartialClaimValid(last.body)
        /\ ~IdExists(claimsData, last.id))
           => /\ DbUpdateClaim(last.id, ParsedClaim(last.body)).err
                     = MemUpdateClaim(last.id, ParsedClaim(last.body)).err
              /\ (DbUpdateClaim(last.id, ParsedClaim(last.body)).value = <<>>)
                     = (MemUpdateClaim(last.id, ParsedClaim(last.body)).value = <<>>)
    /\ (last.kind = "deleteClaim" /\ last.status = 404)
           => DbDeleteClaim(last.id).deleted = MemDeleteClaim(last.id).deleted

\* the claims a GET /api/claims answered
Listed == last.value[1]

\* C18: getClaims(limit) returns stored claims newest first and never more than limit
\* of them (none for a limit below 0, at most 50 without a limit), for every limit
\* GET /api/claims?limit=N passes.
C18_ListNewestFirstWithinLimit ==
    (last.kind = "getClaims" /\ last.status = 200)
    => /\ \A i, j \in 1..Len(Listed) : i < j => Listed[i].createdAt >= Listed[j].createdAt
       /\ \A i \in 1..Len(Listed) : \E k \in 1..Len(claimsData) : claimsData[k] = Listed[i]
       /\ Len(Listed) <= (IF LimitOf(last.body) > 0 THEN LimitOf(last.body) ELSE 0)

\* C19: every response is sent by the handler of the request's route: an error raised
\* while serving a request, the upload filter's rejection included, is caught by the
\* handler and none reaches the framework.
C19_AnsweredByHandler ==
    last.kind # "none" => last.by = "handler"

\* C20: the status of every stored claim is one of pending, approved, rejected,
\* review_required, whatever the routes that write claims were sent.
C20_StoredStatusInEnum ==
    \A i \in 1..Len(claimsData) :
        Get(claimsData[i], "status") \in {"pending", "approved", "rejected", "review_required"}

\* C20 witness: a PATCH to a status outside the enumeration was refused and the claim
\* keeps the status an earlier PATCH gave it
C20_Witness ==
    /\ last.kind = "patchClaim" /\ last.status = 400
    /\ last.body = [status |-> "granted"]
    /\ IdExists(claimsData, last.id)
    /\ StoredClaim(last.id)[1].status = "rejected"

\* C21: the area of every stored claim is non-negative, whatever area the create,
\* save and update requests carried.
C21_AreaNonNegative ==
    \A i \in 1..Len(claimsData) : AreaCents(Get(claimsData[i], "area")) >= 0

\* the response is that of the upload that created the file record, and the status
\* of the record in `files` is the one the response tells: processed with 200, failed
\* with 500
CompletedIn(f, response, files) ==
    /\ response.kind = "upload" /\ response.status \in {200, 500}
    /\ response.msg \in {"", "OCR processing failed"}
    /\ response.value[1].file.id = f
    /\ \E i \in 1..Len(files) :
        /\ files[i].id = f
        /\ files[i].status = (IF response.status = 200 THEN "processed" ELSE "failed")

UploadCompleted(f) == CompletedIn(f, last, filesData)

\* an upload that created the file record is in flight
Uploading(f) == \E r \in Slots : reqs[r].kind = "upload" /\ reqs[r].file.id = f

OcrResult == last.value[1]
Returned == last.kind = "processFile" /\ last.value # <<>>

\* C23: processFile returns an integer confidence within [15, 98], and a returned
\* confidence below 50 comes with the survey number "[ILLEGIBLE]".
C23_ConfidenceWithinRange ==
    Returned => /\ OcrResult.confidence \in 15..98
                /\ OcrResult.confidence < 50 => Get(OcrResult, "surveyNumber") = "[ILLEGIBLE]"

\* C23 witness: a large PDF drawn at the top of the perturbation is returned at the
\* upper limit
C23_Witness ==
    /\ Returned
    /\ last.body.mimeType = "application/pdf" /\ last.body.size > 1000 * 1024
    /\ last.body.draw.perturbation = 99
    /\ OcrResult.confidence = 98

\* C25: two processFile calls return distinct claim codes, whatever the times at
\* which they run.
C25_DistinctCodes ==
    (Returned /\ last.after.kind = "processFile" /\ last.after.id # NONE)
        => last.id # last.after.id

\* C27: the confidence processFile returns is at least 55, and the branch that
\* degrades the fields is not taken.
C27_ConfidenceAtLeast55 ==
    Returned => /\ OcrResult.confidence >= 55
                /\ Get(OcrResult, "district") # "[UNCLEAR]"
                /\ Get(OcrResult, "surveyNumber") # "[ILLEGIBLE]"
                /\ OcrResult.rawText.digits = "kept"

\* C27 witness: a small image drawn at the bottom of the perturbation is returned with
\* confidence 55 and the medium-confidence note, its digits kept
C27_Witness ==
    /\ Returned
    /\ last.body.mimeType = "image/png" /\ last.body.size < 100 * 1024
    /\ last.body.draw.perturbation = 0 - 100 /\ last.body.draw.corrupt
    /\ OcrResult.confidence = 55
    /\ OcrResult.rawText.note # ""

\* C24: no step removes a file record: every file id stored before a step, be it of an
\* upload, a save, an update or a deletion of a claim, is stored after it.
C24_FileRecordsKept ==
    [][\A i \in 1..Len(filesData) :
          \E j \in 1..Len(filesData') : filesData'[j].id = filesData[i].id]_vars

\* C24 witness: the claim a save created while naming a file was deleted, and the
\* file record is still stored
C24_Witness ==
    /\ last.kind = "deleteClaim" /\ last.status = 204
    /\ claimsData = <<>>
    /\ \E i \in 1..Len(filesData) : filesData[i].status = "processed"

\* C26: a POST /api/ocr/save answered 400 has created no claim: unless the answer is
\* that the code already exists, no stored claim carries the code of the request (the
\* requests are served one at a time, so no other request stored it).
C26_RejectedSaveCreatesNothing ==
    (/\ last.kind = "ocrSave" /\ last.status = 400
     /\ last.msg # "Claim ID already exists"
     /\ Truthy(Get(last.body, "claimId")))
        => ~CodeExists(claimsData, last.body.claimId)

\* C28: every stored claim that has a non-null boundary geometry is exactly one feature
\* of the collection GET /api/map/claims answers, however many claims are stored.
C28_MapComplete ==
    last.kind = "mapClaims"
        => \A j \in 1..Len(claimsData) :
               Get(claimsData[j], "boundaryGeometry") \notin {NULL, UNDEFINED}
                   => Cardinality({i \in DOMAIN MapFeatures :
                          MapFeatures[i].properties.id = claimsData[j].id}) = 1

\* C29: an uploadFile call that resolves leaves {isUploading: false, uploadProgress:
\* 100, error: null}, one that rejects leaves {isUploading: false, uploadProgress: 0,
\* error: message}, and while no call is in flight only uploadFile and resetUpload
\* change the upload state: no interval of an earlier call does.
C29_SettledStateStable ==
    [][/\ fileUpload'.step = "resolved"
           => fileUpload'.uploadState =
                  [isUploading |-> FALSE, uploadProgress |-> 100, error |-> NULL]
       /\ fileUpload'.step = "rejected"
           => /\ ~fileUpload'.uploadState.isUploading
              /\ fileUpload'.uploadState.uploadProgress = 0
              /\ fileUpload'.uploadState.error # NULL
       /\ (/\ fileUpload.pending = {} /\ fileUpload.calls > 0
           /\ fileUpload'.step \notin {"uploadFile", "resetUpload"})
           => fileUpload'.uploadState = fileUpload.uploadState]_vars

\* what the server would answer the query now
ServerViews(key) ==
    IF key[1] = "/api/claims" THEN {<<claims>> : claims \in getClaims(key[2])}
    ELSE IF key[1] = "/api/dashboard/stats" THEN {MemDashboardStats}
    ELSE {FeatureCollection(claims) : claims \in getClaims(DefaultLimit)}

\* C30: once the success handler of a save from the review modal or of a delete from
\* the claims table has run, every cached view derived from the claims is invalidated
\* (so that it is fetched again), unless what it shows is what the server holds.
C30_ViewsInvalidated ==
    queries.step \in {"saved", "deleted"}
        => \A key \in QueryKeys :
               queries.entries[key] # <<>>
                   => \/ queries.entries[key][1].invalidated
                      \/ queries.entries[key][1].data \in ServerViews(key)

====
